---- MODULE Spec2Model ----
(***************************************************************************)
(* IntuitIntegration (src/intuit_integration.py): a client of the vendor's *)
(* REST API.  One client instance, one public operation in progress at a   *)
(* time.  Every await of _make_request is a control point: the request is  *)
(* in the log, then the transport delivers a ClientResponse (http_response)*)
(* or fails, then _handle_response and the rest of the coroutine run up to *)
(* the next await or to the return/raise.                                  *)
(*                                                                         *)
(* Python objects are modelled by value, except the Template: its nested   *)
(* objects live in `heap` and are named by address, because dict.copy()    *)
(* copies the top level only.  JSON objects are functions from keys to     *)
(* values, JSON arrays are sequences, Python None is PyNone.               *)
(***************************************************************************)
EXTENDS Integers, Sequences, FiniteSets, TLC

VARIABLES
    DEFAULT_TEMPLATE,   \* self.DEFAULT_TEMPLATE: the top-level dict of the Template
    heap,               \* the nested objects of the Template, by address
    op,                 \* the public operation in progress, or "none"
    pc,                 \* control point of the operation
    args,               \* arguments of the operation in progress
    data,               \* update_w2_data: the local `data`
    client_response,    \* get_client_info: the local `client_response`
    returns_response,   \* get_client_info: the local `returns_response`
    requests,           \* requests issued by the current (or last) call, in order
    completed,          \* how many of them _handle_response has returned a body for
    http_response,      \* the ClientResponse delivered and not yet handled
    failed,             \* the error raised by _make_request in this call
    result              \* outcome of the last finished call

vars == <<DEFAULT_TEMPLATE, heap, op, pc, args, data, client_response,
          returns_response, requests, completed, http_response, failed, result>>

-----------------------------------------------------------------------------
(* Bounds of the model *)

MaxClients == 2
MaxReturns == 2
MaxCatalog == 2
MaxSeries == 2

-----------------------------------------------------------------------------
(* Python values *)

PyNone == "None"
EmptyDict == [k \in {} |-> PyNone]
Unbound == "<unbound>"
NoValue == "<none>"

\* dict.get(key, default)
Get(d, key, default) == IF key \in DOMAIN d THEN d[key] ELSE default

\* truth value of a version value: None and the empty string are falsy
Truthy(v) == v \notin {PyNone, ""}

\* truth value of a flag, given by its repr
FlagTruthy(v) == v \notin {"False", "None", "0", "''"}

SeqUpTo(S, n) == UNION {[1..k -> S] : k \in 0..n}

-----------------------------------------------------------------------------
(* Inputs *)

ClientIds == {"c1", "c2"}
ReturnIds == {"r1"}
Years == {PyNone, "2023"}

FlagValues == {"True", "False", "0", "'no'"}
Eins == {"11-1111111", "22-2222222"}

Payloads ==
    {[ein |-> e, employer_state_id |-> "SID-9", name |-> "Acme",
      address |-> [state_id_verified |-> v, is_foreign |-> f,
                   street |-> "1 Main St", city |-> "Reno", state |-> "NV",
                   zip |-> "89501",
                   foreign_address |-> [region |-> "Ontario",
                                        postal_code |-> "K1A",
                                        country |-> "CA"]]] :
        e \in Eins, v \in FlagValues, f \in FlagValues}

\* client records; one of them lacks the clientId field
ClientRecords == {[clientId |-> c, name |-> "n-" \o c] : c \in ClientIds}
                 \cup {[name |-> "n-anon"]}
ReturnEntries == {[id_client |-> "c1", id_status |-> "st1"],
                  [id_client |-> "c1", id_status |-> "st2"]}
StatusEntries == {[id |-> "st1", description |-> "Filed"],
                  [id |-> "st2", description |-> "Pending"]}
SeriesEntries == {[series |-> "s11", version |-> "3"],
                  [series |-> "s11", version |-> "5"],
                  [series |-> "s11", version |-> PyNone],
                  [series |-> "s1", version |-> "4"],
                  [series |-> "s2", version |-> "9"]}

ClientLists == SeqUpTo(ClientRecords, MaxClients)
ReturnLists == SeqUpTo(ReturnEntries, MaxReturns)
CatalogBodies == {EmptyDict} \cup {[values |-> l] : l \in SeqUpTo(StatusEntries, MaxCatalog)}
DetailBodies == {EmptyDict} \cup {[seriesVersion |-> l] : l \in SeqUpTo(SeriesEntries, MaxSeries)}
PutBodies == {[status |-> "saved"]}

ErrorBodies == {EmptyDict, [message |-> "bad token"], [error |-> "boom"],
                [message |-> "bad token", error |-> "boom"]}
ErrorStatuses == {204, 401, 404, 500}

NoResponse == [status |-> 0]

\* the ClientResponse objects the transport may deliver for a request
Responses(bodies) ==
    {[status |-> 200, body |-> b] : b \in bodies}
    \cup {[status |-> 201, body |-> CHOOSE b \in bodies : TRUE]}
    \cup {[status |-> s, body |-> b] : s \in ErrorStatuses, b \in ErrorBodies}

-----------------------------------------------------------------------------
(* The client object *)

integration_name == "intuit"
url == "https://protaxdata.api.intuit.com"
InputViewUrl == <<"https://inputviewcatalog.api.intuit.com/v2/input-views/24ind11/data">>
headers == [accept |-> "application/json", authorization |-> "Bearer t", cookie |-> "sid=1"]

VersionAddr == "template.version"
FieldsAddr == "template.ind.detail.s11.p[0]"
Slots == {"c807", "c805", "c806", "c282", "c88", "c811", "c812", "c820", "c821",
          "c841", "c842", "c843"}

\* The Template as json.load leaves it.  Its shape is the one update_w2_data
\* indexes; format.json itself is data, so its values are taken blank: ids and
\* versions empty, every slot's x an empty list.
Blank == ""
InitialTemplate == [returnId |-> Blank, clientId |-> Blank,
                    version |-> VersionAddr, ind |-> FieldsAddr]
InitialHeap == [a \in {VersionAddr, FieldsAddr} |->
                   IF a = VersionAddr THEN [s11 |-> Blank, s1 |-> Blank]
                   ELSE [s \in Slots |-> <<>>]]

\* the document a top-level dict denotes: what json= serialises
Document(top, h) == [returnId |-> top.returnId, clientId |-> top.clientId,
                     version |-> h[top.version], fields |-> h[top.ind]]

\* dict.copy(): a new top-level dict with the same values, so the same addresses
DictCopy(d) == d

-----------------------------------------------------------------------------
(* Outcomes and errors *)

Return(v) == [kind |-> "return", value |-> v]
Raise(e) == [kind |-> "raise", error |-> e]
NoResult == [kind |-> "none"]
NoError == [type |-> "none"]

IntegrationAuthError(message, status_code, error_code) ==
    [type |-> "IntegrationAuthError", message |-> message,
     status_code |-> status_code, error_code |-> error_code]

IntegrationAPIError(name, message, status_code, error_code) ==
    [type |-> "IntegrationAPIError", integration_name |-> name, message |-> message,
     status_code |-> status_code, error_code |-> error_code]

UnboundLocalError(variable) == [type |-> "UnboundLocalError", variable |-> variable]
ClientConnectionError == [type |-> "ClientConnectionError"]

\* mutant: only 200 counts as success
handle_response_Only200(response) ==
    IF response.status = 200
    THEN [kind |-> "return", value |-> response.body]
    ELSE [kind |-> "raise",
          error |-> [type |-> "IntegrationAPIError", integration_name |-> integration_name,
                     message |-> <<Get(response.body, "error", "Unknown error occurred."),
                                   " (HTTP ", ToString(response.status), ")">>,
                     status_code |-> response.status, error_code |-> response.status]]

\* _handle_response.  A message is the sequence of its pieces, cut so that a
\* vendor field or a default sentence it may contain is a piece of its own.
_handle_response(response) ==
    IF response.status \in {200, 201}
    THEN Return(response.body)
    ELSE IF response.status = 401
    THEN LET error_message == Get(response.body, "message", "Authentication failed.")
         IN  \* error_message is assigned and not used
             Raise(IntegrationAuthError(
                 <<"Appfolio: ", "Authentication failed.", " (HTTP ",
                   ToString(response.status), ")">>,
                 response.status, response.status))
    ELSE Raise(IntegrationAPIError(
             integration_name,
             <<Get(response.body, "error", "Unknown error occurred."),
               " (HTTP ", ToString(response.status), ")">>,
             response.status, response.status))

-----------------------------------------------------------------------------
(* Pure parts of the operations *)

\* the last and the first of a set of positions of a list
LastOf(positions) == CHOOSE i \in positions : \A j \in positions : j <= i
FirstOf(positions) == CHOOSE i \in positions : \A j \in positions : i <= j

\* d[key] = value on a dict
DictSet(d, key, value) == [k \in DOMAIN d \cup {key} |-> IF k = key THEN value ELSE d[k]]

\* {status['id']: status['description'] for status in values}: a later entry overwrites
StatusMap(status_response) ==
    LET values == Get(status_response, "values", <<>>)
    IN  [k \in {values[i].id : i \in DOMAIN values} |->
            values[LastOf({i \in DOMAIN values : values[i].id = k})].description]

\* {entry['id_client']: status_map.get(entry['id_status'], "Unknown Status") ...}
ClientStatusMap(returns, status_map) ==
    [k \in {returns[i].id_client : i \in DOMAIN returns} |->
        Get(status_map,
            returns[LastOf({i \in DOMAIN returns : returns[i].id_client = k})].id_status,
            "Unknown Status")]

\* mutant: the two sentinels change places
Enrich_SentinelsSwapped(clients, returns, status_response) ==
    LET status_map == StatusMap(status_response)
        client_status_map ==
            [k \in {returns[i].id_client : i \in DOMAIN returns} |->
                Get(status_map,
                    returns[LastOf({i \in DOMAIN returns : returns[i].id_client = k})].id_status,
                    "No Return Found")]
    IN  [i \in DOMAIN clients |->
            DictSet(clients[i], "return_status",
                    Get(client_status_map, Get(clients[i], "clientId", PyNone),
                        "Unknown Status"))]

\* the loop that adds return_status to every client record, in place
Enrich(clients, returns, status_response) ==
    LET client_status_map == ClientStatusMap(returns, StatusMap(status_response))
    IN  [i \in DOMAIN clients |->
            DictSet(clients[i], "return_status",
                    Get(client_status_map, Get(clients[i], "clientId", PyNone),
                        "No Return Found"))]

IsS11(version_info) == Get(version_info, "series", PyNone) = "s11"
IsS1(version_info) == Get(version_info, "series", PyNone) = "s1"

\* mutant: the loop does not return at the first match, the last s11 entry wins
SeriesVersion_LastWins(response) ==
    LET list == Get(response, "seriesVersion", <<>>)
    IN  IF \E i \in DOMAIN list : IsS11(list[i])
        THEN Return(Get(list[LastOf({i \in DOMAIN list : IsS11(list[i])})], "version", PyNone))
        ELSE Raise(IntegrationAPIError(integration_name,
                       <<"No s11 version found in response">>, 404, 404))

\* get_series_version after the GET: return at the first s11 entry, else raise
SeriesVersion(response) ==
    LET list == Get(response, "seriesVersion", <<>>)
    IN  IF \E i \in DOMAIN list : IsS11(list[i])
        THEN Return(Get(list[FirstOf({i \in DOMAIN list : IsS11(list[i])})], "version", PyNone))
        ELSE Raise(IntegrationAPIError(integration_name,
                       <<"No s11 version found in response">>, 404, 404))

\* update_w2_data, the scan loop: every entry is visited, a later entry overwrites;
\* a local no entry assigns stays unbound
ScanSeries(response) ==
    LET list == Get(response, "seriesVersion", <<>>)
    IN  [s11_data |-> IF \E i \in DOMAIN list : IsS11(list[i])
                      THEN Get(list[LastOf({i \in DOMAIN list : IsS11(list[i])})], "version", PyNone)
                      ELSE Unbound,
         s1_data |-> IF \E i \in DOMAIN list : IsS1(list[i])
                     THEN Get(list[LastOf({i \in DOMAIN list : IsS1(list[i])})], "version", PyNone)
                     ELSE Unbound]

Desc(v) == <<[desc |-> v]>>
Flag(v) == IF FlagTruthy(v) THEN <<[amt |-> "1"]>> ELSE <<>>

\* mutant: the foreign-address flag is taken from the state-id flag
PopulateFields_FlagCopied(fields, payload) ==
    [fields EXCEPT
        !["c807"] = Desc(payload.ein),
        !["c805"] = Desc(payload.employer_state_id),
        !["c806"] = Desc(payload.name),
        !["c282"] = Flag(payload.address.state_id_verified),
        !["c88"] = Flag(payload.address.state_id_verified),
        !["c811"] = Desc(payload.address.street),
        !["c812"] = Desc(payload.address.city),
        !["c820"] = Desc(payload.address.state),
        !["c821"] = Desc(payload.address.zip),
        !["c841"] = Desc(payload.address.foreign_address.region),
        !["c842"] = Desc(payload.address.foreign_address.postal_code),
        !["c843"] = Desc(payload.address.foreign_address.country)]

\* the twelve slot assignments of update_w2_data, applied to the fields object
PopulateFields(fields, payload) ==
    [fields EXCEPT
        !["c807"] = Desc(payload.ein),
        !["c805"] = Desc(payload.employer_state_id),
        !["c806"] = Desc(payload.name),
        !["c282"] = Flag(payload.address.state_id_verified),
        !["c88"] = Flag(payload.address.is_foreign),
        !["c811"] = Desc(payload.address.street),
        !["c812"] = Desc(payload.address.city),
        !["c820"] = Desc(payload.address.state),
        !["c821"] = Desc(payload.address.zip),
        !["c841"] = Desc(payload.address.foreign_address.region),
        !["c842"] = Desc(payload.address.foreign_address.postal_code),
        !["c843"] = Desc(payload.address.foreign_address.country)]

-----------------------------------------------------------------------------
(* Requests *)

Request(method, api_url) == [method |-> method, url |-> api_url, headers |-> headers]
PutRequest(api_url, json) ==
    [method |-> "PUT", url |-> api_url, headers |-> headers, json |-> json]

ClientsUrl == <<url, "/v2/clients">>
ReturnsUrl(return_year) == <<url, "/v1/returns/filter/", return_year>>
StatusUrl == <<url, "/v1/returnstatus">>
DetailUrl(client_id, return_id) == <<url, "/v2/clients/", client_id, "/returns/", return_id>>

AwaitPcs == {"gci_clients", "gci_returns", "gci_status", "gsv_detail", "uw2_detail", "uw2_put"}

\* the bodies the vendor may send with a 200 to the request awaited at a control point
BodiesAt(p) ==
    CASE p = "gci_clients" -> ClientLists
      [] p = "gci_returns" -> ReturnLists
      [] p = "gci_status" -> CatalogBodies
      [] p = "gsv_detail" -> DetailBodies
      [] p = "uw2_detail" -> DetailBodies
      [] p = "uw2_put" -> PutBodies

-----------------------------------------------------------------------------
(* Initial state: constructed and initialized, no call made yet *)

Init ==
    /\ DEFAULT_TEMPLATE = InitialTemplate
    /\ heap = InitialHeap
    /\ op = "none"
    /\ pc = "idle"
    /\ args = NoValue
    /\ data = NoValue
    /\ client_response = NoValue
    /\ returns_response = NoValue
    /\ requests = <<>>
    /\ completed = 0
    /\ http_response = NoResponse
    /\ failed = NoError
    /\ result = NoResult

\* a call begins: it issues its first request and waits for it
Begin(operation, arguments, first) ==
    /\ pc = "idle"
    /\ op' = operation
    /\ args' = arguments
    /\ requests' = <<first>>
    /\ completed' = 0
    /\ failed' = NoError
    /\ result' = NoResult
    /\ http_response' = NoResponse
    /\ UNCHANGED <<DEFAULT_TEMPLATE, client_response, returns_response>>

\* the call ends: its locals are gone, its outcome goes to the caller
End(outcome) ==
    /\ pc' = "idle"
    /\ result' = outcome
    /\ args' = NoValue
    /\ data' = NoValue
    /\ client_response' = NoValue
    /\ returns_response' = NoValue
    /\ http_response' = NoResponse
    /\ UNCHANGED <<DEFAULT_TEMPLATE, op, requests>>

\* mutant: the error is caught and the call returns None
Propagate_Swallowed(error) ==
    /\ End(Return(PyNone))
    /\ failed' = error
    /\ UNCHANGED <<heap, completed>>

\* _make_request raised: nothing catches it, the call ends with that error
Propagate(error) ==
    /\ End(Raise(error))
    /\ failed' = error
    /\ UNCHANGED <<heap, completed>>

\* _make_request returned a body and the call goes on to its next request
Continue(next_pc, request) ==
    /\ pc' = next_pc
    /\ requests' = Append(requests, request)
    /\ completed' = completed + 1
    /\ http_response' = NoResponse
    /\ UNCHANGED <<DEFAULT_TEMPLATE, op, args, failed, result>>

-----------------------------------------------------------------------------
(* The transport *)

\* the awaited request gets its response
Deliver ==
    /\ pc \in AwaitPcs
    /\ http_response = NoResponse
    /\ http_response' \in Responses(BodiesAt(pc))
    /\ UNCHANGED <<DEFAULT_TEMPLATE, heap, op, pc, args, data, client_response,
                   returns_response, requests, completed, failed, result>>

\* the awaited request fails in the transport (connection error)
TransportFails ==
    /\ pc \in AwaitPcs
    /\ http_response = NoResponse
    /\ Propagate(ClientConnectionError)

-----------------------------------------------------------------------------
(* get_client_info *)

GetClientInfo_Call ==
    \E return_year \in Years :
        /\ Begin("get_client_info", [return_year |-> return_year], Request("GET", ClientsUrl))
        /\ pc' = "gci_clients"
        /\ UNCHANGED <<heap, data>>

\* mutant: the `return_year is None` early return is missing
GetClientInfo_Clients_NoEarlyReturn ==
    /\ pc = "gci_clients"
    /\ http_response # NoResponse
    /\ LET out == _handle_response(http_response)
       IN  IF out.kind = "raise"
           THEN Propagate(out.error)
           ELSE /\ Continue("gci_returns", Request("GET", ReturnsUrl(args.return_year)))
                /\ client_response' = out.value
                /\ UNCHANGED <<heap, data, returns_response>>

GetClientInfo_Clients ==
    /\ pc = "gci_clients"
    /\ http_response # NoResponse
    /\ LET out == _handle_response(http_response)
       IN  IF out.kind = "raise"
           THEN Propagate(out.error)
           ELSE IF args.return_year = PyNone
           THEN /\ End(Return(out.value))
                /\ completed' = completed + 1
                /\ UNCHANGED <<heap, failed>>
           ELSE /\ Continue("gci_returns", Request("GET", ReturnsUrl(args.return_year)))
                /\ client_response' = out.value
                /\ UNCHANGED <<heap, data, returns_response>>

GetClientInfo_Returns ==
    /\ pc = "gci_returns"
    /\ http_response # NoResponse
    /\ LET out == _handle_response(http_response)
       IN  IF out.kind = "raise"
           THEN Propagate(out.error)
           ELSE /\ Continue("gci_status", Request("GET", StatusUrl))
                /\ returns_response' = out.value
                /\ UNCHANGED <<heap, data, client_response>>

GetClientInfo_Status ==
    /\ pc = "gci_status"
    /\ http_response # NoResponse
    /\ LET out == _handle_response(http_response)
       IN  IF out.kind = "raise"
           THEN Propagate(out.error)
           ELSE /\ End(Return(Enrich(client_response, returns_response, out.value)))
                /\ completed' = completed + 1
                /\ UNCHANGED <<heap, failed>>

-----------------------------------------------------------------------------
(* get_series_version *)

GetSeriesVersion_Call ==
    \E client_id \in ClientIds, return_id \in ReturnIds :
        /\ Begin("get_series_version", [client_id |-> client_id, return_id |-> return_id],
                 Request("GET", DetailUrl(client_id, return_id)))
        /\ pc' = "gsv_detail"
        /\ UNCHANGED <<heap, data>>

GetSeriesVersion_Detail ==
    /\ pc = "gsv_detail"
    /\ http_response # NoResponse
    /\ LET out == _handle_response(http_response)
       IN  IF out.kind = "raise"
           THEN Propagate(out.error)
           ELSE /\ End(SeriesVersion(out.value))
                /\ completed' = completed + 1
                /\ UNCHANGED <<heap, failed>>

-----------------------------------------------------------------------------
(* update_w2_data *)

UpdateW2Data_Call ==
    \E client_id \in ClientIds, return_id \in ReturnIds, payload \in Payloads :
        /\ Begin("update_w2_data",
                 [client_id |-> client_id, return_id |-> return_id, payload |-> payload],
                 Request("GET", DetailUrl(client_id, return_id)))
        /\ data' = [DictCopy(DEFAULT_TEMPLATE) EXCEPT !.returnId = return_id,
                                                      !.clientId = client_id]
        /\ pc' = "uw2_detail"
        /\ UNCHANGED heap

UpdateW2Data_Detail ==
    /\ pc = "uw2_detail"
    /\ http_response # NoResponse
    /\ LET out == _handle_response(http_response)
       IN  IF out.kind = "raise"
           THEN Propagate(out.error)
           ELSE LET scan == ScanSeries(out.value)
                    s11_data == scan.s11_data
                    s1_data == scan.s1_data
                    \* data["version"]["s11"] = s11_data
                    h1 == [heap EXCEPT ![data.version].s11 = s11_data]
                    \* data["version"]["s1"] = s1_data
                    h2 == [h1 EXCEPT ![data.version].s1 = s1_data]
                    h3 == IF Truthy(s11_data) THEN h2 ELSE heap
                    h4 == [h3 EXCEPT ![data.ind] = PopulateFields(h3[data.ind], args.payload)]
                IN  IF s11_data = Unbound
                    THEN \* `if s11_data:` reads a local that was never assigned
                         /\ End(Raise(UnboundLocalError("s11_data")))
                         /\ completed' = completed + 1
                         /\ UNCHANGED <<heap, failed>>
                    ELSE IF Truthy(s11_data) /\ s1_data = Unbound
                    THEN \* the s11 slot is written, then s1_data is read unassigned
                         /\ End(Raise(UnboundLocalError("s1_data")))
                         /\ heap' = h1
                         /\ completed' = completed + 1
                         /\ UNCHANGED failed
                    ELSE /\ Continue("uw2_put", PutRequest(InputViewUrl, Document(data, h4)))
                         /\ heap' = h4
                         /\ UNCHANGED <<data, client_response, returns_response>>

UpdateW2Data_Put ==
    /\ pc = "uw2_put"
    /\ http_response # NoResponse
    /\ LET out == _handle_response(http_response)
       IN  IF out.kind = "raise"
           THEN Propagate(out.error)
           ELSE /\ End(Return(out.value))
                /\ completed' = completed + 1
                /\ UNCHANGED <<heap, failed>>

-----------------------------------------------------------------------------

Next ==
    \/ GetClientInfo_Call
    \/ GetClientInfo_Clients
    \/ GetClientInfo_Returns
    \/ GetClientInfo_Status
    \/ GetSeriesVersion_Call
    \/ GetSeriesVersion_Detail
    \/ UpdateW2Data_Call
    \/ UpdateW2Data_Detail
    \/ UpdateW2Data_Put
    \/ Deliver
    \/ TransportFails

Spec == Init /\ [][Next]_vars

-----------------------------------------------------------------------------
(* Vocabulary of the properties *)

\* this step is _handle_response and the code after it, run on http_response
Handled == http_response # NoResponse /\ http_response' = NoResponse
Success(response) == response.status \in {200, 201}
HasSeries(body, tag) ==
    \E i \in DOMAIN Get(body, "seriesVersion", <<>>) :
        Get(body, "seriesVersion", <<>>)[i].series = tag
VersionsOf(body, tag) ==
    {Get(body, "seriesVersion", <<>>)[i].version :
        i \in {j \in DOMAIN Get(body, "seriesVersion", <<>>) :
                  Get(body, "seriesVersion", <<>>)[j].series = tag}}
LastRequest == requests[Len(requests)]
Contains(message, piece) == \E i \in DOMAIN message : message[i] = piece

-----------------------------------------------------------------------------
(* C1: after any sequence of update_w2_data calls the Template prototype is, *)
(* at every depth, what initialize loaded.                                   *)
C1_TemplateNeverMutated ==
    Document(DEFAULT_TEMPLATE, heap) = Document(InitialTemplate, InitialHeap)

(* C2: a successful return-detail response without an s11 entry does not     *)
(* make update_w2_data fail: the version slots are left as they were, the    *)
(* form-field slots are populated from the payload and the PUT is issued.    *)
C2_NoS11DoesNotFail ==
    [][(pc = "uw2_detail" /\ Handled /\ Success(http_response)
          /\ ~HasSeries(http_response.body, "s11"))
       => /\ pc' = "uw2_put"
          /\ heap'[data.version] = heap[data.version]
          /\ requests'[Len(requests')].method = "PUT"
          /\ requests'[Len(requests')].json.fields["c807"] = Desc(args.payload.ein)]_vars

(* C3: a 401 response raises an AuthenticationError whose message carries    *)
(* the body's `message` field (default "Authentication failed.") and whose   *)
(* two code slots are 401.                                                   *)
C3_AuthErrorCarriesVendorMessage ==
    [][(Handled /\ http_response.status = 401)
       => /\ result'.kind = "raise"
          /\ result'.error.type = "IntegrationAuthError"
          /\ Contains(result'.error.message,
                      Get(http_response.body, "message", "Authentication failed."))
          /\ result'.error.status_code = 401
          /\ result'.error.error_code = 401]_vars

(* C4: get_client_info with a year returns the client records in the order   *)
(* and number of the client list, each with only return_status added: "No    *)
(* Return Found" when no return entry has the client's id, else the catalog  *)
(* description of the status id of a return entry of the client, "Unknown    *)
(* Status" when the catalog has no such id.                                  *)
C4_Enrichment ==
    [][(pc = "gci_status" /\ Handled /\ Success(http_response))
       => /\ result'.kind = "return"
          /\ LET out == result'.value
                 catalog == Get(http_response.body, "values", <<>>)
             IN  /\ DOMAIN out = DOMAIN client_response
                 /\ \A i \in DOMAIN out :
                      LET before == client_response[i]
                          mine == {j \in DOMAIN returns_response :
                                     returns_response[j].id_client =
                                         Get(before, "clientId", PyNone)}
                          status == out[i]["return_status"]
                      IN  /\ DOMAIN out[i] = DOMAIN before \cup {"return_status"}
                          /\ \A k \in DOMAIN before \ {"return_status"} :
                                out[i][k] = before[k]
                          /\ mine = {} => status = "No Return Found"
                          /\ mine # {} =>
                                \E j \in mine :
                                    LET known == {k \in DOMAIN catalog :
                                                   catalog[k].id = returns_response[j].id_status}
                                    IN  IF known = {} THEN status = "Unknown Status"
                                        ELSE \E k \in known :
                                                status = catalog[k].description]_vars

C4_Witness ==
    /\ op = "get_client_info" /\ pc = "idle" /\ result.kind = "return"
    /\ Len(requests) = 3 /\ Len(result.value) = 2
    /\ Get(result.value[1], "clientId", PyNone) = "c2"
    /\ result.value[1]["return_status"] = "No Return Found"
    /\ Get(result.value[2], "clientId", PyNone) = "c1"
    /\ result.value[2]["return_status"] = "Unknown Status"

(* C5: get_series_version returns the version of the first seriesVersion     *)
(* entry whose series is "s11"; without such an entry it raises the APIError *)
(* "No s11 version found in response" with code 404.                         *)
C5_FirstS11OrNotFound ==
    [][(pc = "gsv_detail" /\ Handled /\ Success(http_response))
       => LET list == Get(http_response.body, "seriesVersion", <<>>)
              s11 == {i \in DOMAIN list : list[i].series = "s11"}
          IN  IF s11 = {}
              THEN /\ result'.kind = "raise"
                   /\ result'.error.type = "IntegrationAPIError"
                   /\ result'.error.message = <<"No s11 version found in response">>
                   /\ result'.error.status_code = 404
              ELSE /\ result'.kind = "return"
                   /\ \E i \in s11 : /\ \A j \in s11 : i <= j
                                      /\ result'.value = list[i].version]_vars

C5_Witness ==
    /\ op = "get_series_version" /\ pc = "idle" /\ completed = 1
    /\ result.kind = "raise" /\ result.error.status_code = 404
    /\ result.error.message = <<"No s11 version found in response">>

(* C6: response handling goes by the status alone: 200 and 201 give the body *)
(* to the caller and raise nothing; a non-2xx status other than 401 raises   *)
(* an APIError with the body's `error` field (default "Unknown error         *)
(* occurred.") suffixed with the status, and that status as code; no body is *)
(* returned for a non-2xx status.                                            *)
C6_StatusClassification ==
    [][Handled
       => /\ Success(http_response) =>
               /\ failed' = NoError
               /\ completed' = completed + 1
               /\ pc = "gci_clients" /\ pc' = "idle" => result' = Return(http_response.body)
               /\ pc = "gci_clients" /\ pc' # "idle" => client_response' = http_response.body
               /\ pc = "gci_returns" => returns_response' = http_response.body
               /\ pc = "uw2_put" => result' = Return(http_response.body)
          /\ (http_response.status \notin 200..299 /\ http_response.status # 401) =>
               /\ result'.kind = "raise"
               /\ result'.error.type = "IntegrationAPIError"
               /\ result'.error.message =
                      <<Get(http_response.body, "error", "Unknown error occurred."),
                        " (HTTP ", ToString(http_response.status), ")">>
               /\ result'.error.status_code = http_response.status
          /\ http_response.status \notin 200..299 =>
               /\ result'.kind = "raise"
               /\ completed' = completed
               /\ pc' = "idle"]_vars

C6_Witness ==
    /\ pc = "idle" /\ result.kind = "raise"
    /\ result.error.type = "IntegrationAPIError"
    /\ result.error.message = <<"boom", " (HTTP ", "500", ")">>
    /\ result.error.status_code = 500

(* C7: get_client_info without a year issues the client-list GET and no      *)
(* other request, and returns that response as it came.                      *)
C7_NoYearIdentity ==
    [][(pc = "gci_clients" /\ Handled /\ Success(http_response)
          /\ args.return_year = PyNone)
       => /\ pc' = "idle"
          /\ result' = Return(http_response.body)
          /\ requests' = <<Request("GET", ClientsUrl)>>]_vars

C7_Witness ==
    /\ op = "get_client_info" /\ pc = "idle" /\ result.kind = "return"
    /\ requests = <<Request("GET", ClientsUrl)>> /\ completed = 1
    /\ Len(result.value) = 2
    /\ \A i \in DOMAIN result.value : "return_status" \notin DOMAIN result.value[i]

(* C8: in the body of the PUT the flag slots c282 and c88 are [{"amt":"1"}]  *)
(* for a truthy flag and [] for a falsy one, each by its own flag, and the   *)
(* four domestic and three foreign address slots are populated whatever the  *)
(* flags.                                                                    *)
C8_FlagEncoding ==
    pc = "uw2_put" =>
        LET fields == LastRequest.json.fields
            address == args.payload.address
        IN  /\ LastRequest.method = "PUT"
            /\ fields["c282"] = IF FlagTruthy(address.state_id_verified)
                                 THEN <<[amt |-> "1"]>> ELSE <<>>
            /\ fields["c88"] = IF FlagTruthy(address.is_foreign)
                                THEN <<[amt |-> "1"]>> ELSE <<>>
            /\ fields["c811"] = <<[desc |-> address.street]>>
            /\ fields["c812"] = <<[desc |-> address.city]>>
            /\ fields["c820"] = <<[desc |-> address.state]>>
            /\ fields["c821"] = <<[desc |-> address.zip]>>
            /\ fields["c841"] = <<[desc |-> address.foreign_address.region]>>
            /\ fields["c842"] = <<[desc |-> address.foreign_address.postal_code]>>
            /\ fields["c843"] = <<[desc |-> address.foreign_address.country]>>

C8_Witness ==
    /\ pc = "uw2_put"
    /\ args.payload.address.state_id_verified = "'no'"
    /\ args.payload.address.is_foreign = "0"
    /\ LastRequest.json.fields["c282"] = <<[amt |-> "1"]>>
    /\ LastRequest.json.fields["c88"] = <<>>
    /\ LastRequest.json.fields["c843"] = <<[desc |-> "CA"]>>

(* C9: a successful return-detail response with an s11 entry, whatever its   *)
(* version and whether or not an s1 entry is present, makes update_w2_data   *)
(* populate the s11 slot with the s11 version (and the s1 slot with the s1   *)
(* version when there is one) and go on to the PUT.                          *)
C9_S11PopulatesAndPuts ==
    [][(pc = "uw2_detail" /\ Handled /\ Success(http_response)
          /\ HasSeries(http_response.body, "s11"))
       => /\ pc' = "uw2_put"
          /\ heap'[data.version].s11 \in VersionsOf(http_response.body, "s11")
          /\ HasSeries(http_response.body, "s1")
                => heap'[data.version].s1 \in VersionsOf(http_response.body, "s1")]_vars

(* C10: the requests of one call are issued one after another in the fixed   *)
(* order, each only after the one before returned a body; when a request     *)
(* fails its error reaches the caller as raised, no further request is       *)
(* issued and nothing is returned.                                           *)
C10_SequentialAllOrNothing ==
    [][/\ (pc = "idle" /\ pc' # "idle") =>
            /\ Len(requests') = 1
            /\ requests'[1].method = "GET"
            /\ requests'[1].url =
                   IF op' = "get_client_info" THEN ClientsUrl
                   ELSE DetailUrl(args'.client_id, args'.return_id)
       /\ (pc # "idle" /\ requests' # requests) =>
            /\ Handled /\ Success(http_response)
            /\ completed' = Len(requests)
            /\ pc \in {"gci_clients", "gci_returns", "uw2_detail"}
            /\ requests' = Append(requests,
                   CASE pc = "gci_clients" -> Request("GET", ReturnsUrl(args.return_year))
                     [] pc = "gci_returns" -> Request("GET", StatusUrl)
                     [] pc = "uw2_detail" ->
                            PutRequest(InputViewUrl, Document(data', heap')))
       /\ (Handled /\ ~Success(http_response)) =>
            /\ pc' = "idle"
            /\ result' = _handle_response(http_response)
            /\ requests' = requests
       /\ (pc \in AwaitPcs /\ http_response = NoResponse /\ pc' = "idle") =>
            /\ result' = Raise(ClientConnectionError)
            /\ requests' = requests
       /\ pc' \in AwaitPcs => completed' = Len(requests') - 1
       /\ result'.kind = "return" =>
            /\ failed' = NoError
            /\ completed' = Len(requests')
            /\ Len(requests') = CASE op' = "get_client_info" ->
                                        IF Len(requests') = 1 THEN 1 ELSE 3
                                   [] op' = "get_series_version" -> 1
                                   [] op' = "update_w2_data" -> 2
       /\ failed' # NoError =>
            /\ pc' = "idle"
            /\ result' = Raise(failed')
            /\ completed' = Len(requests') - 1]_vars

C10_Witness ==
    /\ op = "update_w2_data" /\ pc = "idle"
    /\ failed.type = "IntegrationAPIError" /\ failed.status_code = 500
    /\ result = Raise(failed)
    /\ Len(requests) = 1 /\ completed = 0

====
